---- MODULE Spec2Model ----
(***************************************************************************)
(* Reservation lifecycle of reservas-inacap: creation with conflict        *)
(* detection (api/forms.py), staff decisions and owner cancellation        *)
(* (api/views.py, api/models.py).                                          *)
(*                                                                         *)
(* Times are minutes of local wall-clock time counted from 00:00 of day 0. *)
(* Text is a sequence of one-character strings.  Slot labels are sequences *)
(* of character codes so that they compare as Python strings do.           *)
(***************************************************************************)
EXTENDS Integers, Sequences, FiniteSets, Bags, TLC

\* ------------------------------------------------------------------ bounds
\* Rows the reservation table may hold.
MaxRes == 2
\* Times the clock advances.
MaxTicks == 2
\* Half hours after 05:00 at which the cancellation rule is tried on its own.
MaxClockSteps == 9
\* Cancellation traces a stored purpose may carry (one is appended on every
\* cancellation with a reason).
MaxTraces == 1
\* the slot grid on its own: intervals of 1..MaxInterval minutes, day starts
\* and day ends at 08:30 plus 0..MaxSlotSteps times ten minutes
MaxInterval == 12
MaxSlotSteps == 4

\* ------------------------------------------------------------ text helpers
None == "None"

RECURSIVE LStrip(_, _)
LStrip(s, cs) == IF s # <<>> /\ Head(s) \in cs THEN LStrip(Tail(s), cs) ELSE s

RECURSIVE RStrip(_, _)
RStrip(s, cs) ==
    IF s # <<>> /\ s[Len(s)] \in cs THEN RStrip(SubSeq(s, 1, Len(s) - 1), cs) ELSE s

\* str.strip(chars)
StripChars(s, cs) == RStrip(LStrip(s, cs), cs)

Whitespace == {" "}

\* str.strip()
Strip(s) == StripChars(s, Whitespace)

\* s[:n]
Truncate(s, n) == SubSeq(s, 1, IF Len(s) < n THEN Len(s) ELSE n)

\* sep.join(parts)
RECURSIVE Join(_, _)
Join(parts, sep) ==
    IF parts = <<>> THEN <<>>
    ELSE IF Len(parts) = 1 THEN parts[1]
    ELSE parts[1] \o sep \o Join(Tail(parts), sep)

TxtRecursosSolicitados == <<"R", "e", "c", "u", "r", "s", "o", "s", " ", "s", "o", "l", "i", "c", "i", "t", "a", "d", "o", "s", ":", " ">>
TxtDetalleRecursos == <<"D", "e", "t", "a", "l", "l", "e", " ", "r", "e", "c", "u", "r", "s", "o", "s", ":", " ">>
TxtSepPartes == <<" ", "|", " ">>
TxtComa == <<",", " ">>
TxtCancelada == <<" ", "[", "C", "a", "n", "c", "e", "l", "a", "d", "a", " ", "p", "o", "r", " ", "u", "s", "u", "a", "r", "i", "o", "]">>
TxtRecursos == <<"R", "e", "c", "u", "r", "s", "o", "s", ":", " ">>
TxtNotas == <<"N", "o", "t", "a", "s", ":", " ">>
TxtClase == <<"C", "l", "a", "s", "e">>
TxtProyector == <<"P", "r", "o", "y", "e", "c", "t", "o", "r">>
TxtHDMI == <<"H", "D", "M", "I">>
TxtLluvia == <<"L", "l", "u", "v", "i", "a">>
TxtOk == <<"o", "k">>

\* ------------------------------------------------------------- settings
MIN_CANCEL_WINDOW_HOURS == 2
SLOT_INTERVAL_MIN == 30
\* "08:30" and "22:00" as character codes
SLOT_DAY_START == <<48, 56, 58, 51, 48>>
SLOT_DAY_END == <<50, 50, 58, 48, 48>>
CLEANING_GROUP_NAME == "Aseo"

\* ------------------------------------------------------------ slot grid
\* "%H:%M" of a datetime that is t minutes after 2000-01-01 00:00
StrfHHMM(t) ==
    LET h == (t \div 60) % 24
        m == t % 60
    IN  <<48 + (h \div 10), 48 + (h % 10), 58, 48 + (m \div 10), 48 + (m % 10)>>

\* int() of a string of digits
RECURSIVE IntOfDigits(_)
IntOfDigits(ds) ==
    IF ds = <<>> THEN 0
    ELSE IntOfDigits(SubSeq(ds, 1, Len(ds) - 1)) * 10 + (ds[Len(ds)] - 48)

\* hh, mm = hhmm.split(":"), then int(hh), int(mm); the result is <<hour, minute>>
_parse_hhmm(hhmm) ==
    LET colon == CHOOSE k \in 1..Len(hhmm) : hhmm[k] = 58
    IN  <<IntOfDigits(SubSeq(hhmm, 1, colon - 1)),
          IntOfDigits(SubSeq(hhmm, colon + 1, Len(hhmm)))>>

RECURSIVE SlotsFrom(_, _, _)
SlotsFrom(cur, end_dt, step) ==
    IF cur <= end_dt THEN <<StrfHHMM(cur)>> \o SlotsFrom(cur + step, end_dt, step)
    ELSE <<>>

\* mutant: the loop runs while cur < end_dt
build_day_slots_exclusive(interval, day_start, day_end) ==
    LET t0 == _parse_hhmm(day_start)
        t1 == _parse_hhmm(day_end)
    IN  SlotsFrom(t0[1] * 60 + t0[2], t1[1] * 60 + t1[2] - 1, interval)

\* the body of build_day_slots for the three values it reads from the settings
build_day_slots_of(interval, day_start, day_end) ==
    LET t0 == _parse_hhmm(day_start)
        t1 == _parse_hhmm(day_end)
    IN  SlotsFrom(t0[1] * 60 + t0[2], t1[1] * 60 + t1[2], interval)

build_day_slots == build_day_slots_of(SLOT_INTERVAL_MIN, SLOT_DAY_START, SLOT_DAY_END)

\* Python's a < b on strings: lexicographic on the character codes
RECURSIVE StrLess(_, _)
StrLess(a, b) ==
    IF b = <<>> THEN FALSE
    ELSE IF a = <<>> THEN TRUE
    ELSE IF Head(a) # Head(b) THEN Head(a) < Head(b)
    ELSE StrLess(Tail(a), Tail(b))

\* mutant: < for <=
StrLeqStrict(a, b) == StrLess(a, b)

StrLeq(a, b) == a = b \/ StrLess(a, b)

\* ------------------------------------------------------ the stored world
PENDING == "PEND"
APPROVED == "APPR"
REJECTED == "REJ"
CANCELED == "CANC"

Anonymous == "anonymous"
Users == {"ana", "beto", "admin", "root", "aseo1", "aseo2"}
\* User.is_staff
StaffUsers == {"admin", "root"}
\* users that own a Profile row
ProfileUsers == {"ana", "beto", "admin"}
Spaces == {"Auditorio", "Sala1"}
\* Resource rows: id -> name
ResourceTable == (1 :> TxtProyector)

\* mutant: every user passes the test
is_staff_any_user(user) == user \in Users

is_staff(user) == user \in StaffUsers

\* ------------------------------------------------------------ the inputs
Actors == Users \cup {Anonymous}
L1 == build_day_slots[1]
L2 == build_day_slots[2]
L3 == build_day_slots[3]
\* a label that is not on the grid: "07:00"
OffGrid == StrfHHMM(7 * 60)
\* <<purpose, resource ids, resources_notes>> of a create request
TextsPlain == <<(<<>>), (<<>>), (<<>>)>>
TextsFull == <<TxtClase, <<1>>, <<" ">> \o TxtHDMI>>
\* <<actor, space, date, start_slot, end_slot, texts>> of a create request:
\* three intervals of one space and one of another, then a request with equal
\* labels, one with the labels reversed, one with a label off the grid, one
\* without a space and one without a login
CreateInputs ==
    { <<"ana", "Auditorio", 0, L1, L2, TextsFull>>,
      <<"ana", "Auditorio", 0, L2, L3, TextsFull>>,
      <<"ana", "Auditorio", 0, L1, L3, TextsFull>>,
      <<"ana", "Sala1", 0, L1, L3, TextsPlain>>,
      <<"ana", "Auditorio", 0, L2, L2, TextsPlain>>,
      <<"ana", "Auditorio", 0, L3, L1, TextsPlain>>,
      <<"ana", "Auditorio", 0, OffGrid, L2, TextsPlain>>,
      <<"ana", None, 0, L1, L2, TextsPlain>>,
      <<Anonymous, "Auditorio", 0, L1, L2, TextsPlain>> }
\* <<actor, method, decision, notes>> of a decision request
DecideInputs ==
    { <<"admin", "POST", "approve", <<>> >>,
      <<"admin", "POST", "reject", TxtOk>>,
      <<"admin", "POST", "reject", <<>> >>,
      <<"admin", "POST", "REJ", TxtOk>>,
      <<"admin", "POST", "other", <<>> >>,
      <<"admin", "GET", "approve", <<>> >>,
      <<"ana", "POST", "approve", <<>> >>,
      <<Anonymous, "POST", "reject", TxtOk>> }
\* <<actor, method, reason>> of a cancel request
CancelInputs ==
    { <<"ana", "POST", <<>> >>,
      <<"ana", "POST", <<" ">> >>,
      <<"ana", "POST", TxtLluvia \o <<" ">> >>,
      <<"ana", "GET", <<>> >>,
      <<"beto", "POST", TxtLluvia>>,
      <<"admin", "POST", TxtLluvia>>,
      <<Anonymous, "POST", <<>> >> }
\* the clock starts at 07:00 of day 0 and advances one hour at a time
NowStart == 7 * 60
TickMin == 2 * SLOT_INTERVAL_MIN

VARIABLES
    reservations,   \* Reservation table: sequence of rows, pk = index
    approvals,      \* Approval table: set of rows
    notified,       \* Notification rows inserted by the request served last (a bag)
    groups,         \* auth Group table: name -> set of users
    now,            \* timezone.now()
    last,           \* the request served last and its response
    inflight        \* the requests being served: per worker, its position and locals

vars == <<reservations, approvals, notified, groups, now, last, inflight>>

\* the workers that serve requests side by side
Workers == {"w1", "w2"}

\* no request is being served
Idle == [w \in Workers |-> [pc |-> "idle"]]

\* the request served last and its response
Response(op, pk, errors, result) ==
    [op |-> op, pk |-> pk, errors |-> errors, result |-> result]

\* --------------------------------------------------------- notifications
\* a Notification row: recipient, which message, the reservation it names, the
\* notes or reason the message carries
Note(user, kind, about, detail) ==
    [user |-> user, kind |-> kind, about |-> about, detail |-> detail]

\* str(reservation): space and start
ReservationStr(r) == <<r.space, r.start>>

\* views._notify_user
_notify_user(user, kind, about, detail) ==
    IF user # None THEN SetToBag({Note(user, kind, about, detail)}) ELSE EmptyBag

\* utils.users_in_group: the members, none if there is no such group
users_in_group(gs, group_name) ==
    IF group_name \in DOMAIN gs THEN gs[group_name] ELSE {}

\* mutant: without the group, every user is told
_notify_group_everyone(gs, group_name, kind, about, detail) ==
    SetToBag({ Note(u, kind, about, detail) :
                 u \in IF group_name \in DOMAIN gs THEN gs[group_name] ELSE Users })

\* mutant: the loop over the members stops after the first one
_notify_group_first(gs, group_name, kind, about, detail) ==
    IF group_name \notin DOMAIN gs \/ gs[group_name] = {} THEN EmptyBag
    ELSE SetToBag({ Note(CHOOSE u \in gs[group_name] : TRUE, kind, about, detail) })

\* views._notify_group
_notify_group(gs, group_name, kind, about, detail) ==
    IF group_name \notin DOMAIN gs THEN EmptyBag
    ELSE SetToBag({ Note(u, kind, about, detail) : u \in gs[group_name] })

notify_cleaning_staff(gs, kind, about, detail) ==
    _notify_group(gs, CLEANING_GROUP_NAME, kind, about, detail)

\* ------------------------------------------------------------- creation
\* datetime(date, hh, mm) made aware: minutes since 00:00 of day 0
DateTime(date, hhmm) ==
    LET t == _parse_hhmm(hhmm) IN date * 1440 + t[1] * 60 + t[2]

\* mutant: the bounds compared with <= and >=, so that touching intervals collide
ConflictQsClosed(rs, space, start_dt, end_dt) ==
    { i \in DOMAIN rs :
        /\ rs[i].space = space
        /\ rs[i].status \in {PENDING, APPROVED}
        /\ rs[i].start <= end_dt
        /\ rs[i].end >= start_dt }

\* mutant: only approved reservations block a creation
ConflictQsApprovedOnly(rs, space, start_dt, end_dt) ==
    { i \in DOMAIN rs :
        /\ rs[i].space = space
        /\ rs[i].status \in {APPROVED}
        /\ rs[i].start < end_dt
        /\ rs[i].end > start_dt }

ConflictQsAnyStatus(rs, space, start_dt, end_dt) ==
    { i \in DOMAIN rs :
        /\ rs[i].space = space
        /\ rs[i].start < end_dt
        /\ rs[i].end > start_dt }

\* the queryset of ReservationForm.clean, for a new instance (no pk to exclude)
ConflictQs(rs, space, start_dt, end_dt) ==
    { i \in DOMAIN rs :
        /\ rs[i].space = space
        /\ rs[i].status \in {PENDING, APPROVED}
        /\ rs[i].start < end_dt
        /\ rs[i].end > start_dt }

\* the labels offered by the start_slot / end_slot choice fields
SlotChoices == { build_day_slots[i] : i \in DOMAIN build_day_slots }

\* field cleaning of the form: a value that is no choice is dropped with an error
FieldErrors(space, start_slot, end_slot) ==
    (IF space \in Spaces THEN {} ELSE {"space"})
    \cup (IF start_slot \in SlotChoices THEN {} ELSE {"start_slot"})
    \cup (IF end_slot \in SlotChoices THEN {} ELSE {"end_slot"})

\* mutant: the past check compares the wrong way round
StartsInPastReversed(start_dt, t) == start_dt > t

\* "No puedes reservar en el pasado": start_dt < timezone.now()
StartsInPast(start_dt, t) == start_dt < t

\* mutant: clean() without the two checks of the order of start and end
ReservationFormCleanNoOrder(rs, t, space_in, date, start_in, end_in) ==
    LET fe == FieldErrors(space_in, start_in, end_in)
        start_slot == IF "start_slot" \in fe THEN None ELSE start_in
        end_slot == IF "end_slot" \in fe THEN None ELSE end_in
    IN  IF start_slot = None \/ end_slot = None
        THEN [errors |-> fe, start |-> -1, end |-> -1]
        ELSE LET start_dt == DateTime(date, start_slot)
                 end_dt == DateTime(date, end_slot)
             IN  [errors |->
                     fe \cup (IF StartsInPast(start_dt, t) THEN {"pasado"} ELSE {})
                        \cup (IF "space" \notin fe
                                 /\ ConflictQs(rs, space_in, start_dt, end_dt) # {}
                              THEN {"conflicto"} ELSE {}),
                  start |-> start_dt, end |-> end_dt]

\* ReservationForm.clean: [errors, start, end]
ReservationFormClean(rs, t, space_in, date, start_in, end_in) ==
    LET fe == FieldErrors(space_in, start_in, end_in)
        space == IF "space" \in fe THEN None ELSE space_in
        start_slot == IF "start_slot" \in fe THEN None ELSE start_in
        end_slot == IF "end_slot" \in fe THEN None ELSE end_in
    IN  IF start_slot = None \/ end_slot = None
        THEN [errors |-> fe, start |-> -1, end |-> -1]
        ELSE IF start_slot \notin SlotChoices \/ end_slot \notin SlotChoices
        THEN [errors |-> fe \cup {"bloques"}, start |-> -1, end |-> -1]
        ELSE IF StrLeq(end_slot, start_slot)
        THEN [errors |-> fe \cup {"termino"}, start |-> -1, end |-> -1]
        ELSE LET start_dt == DateTime(date, start_slot)
                 end_dt == DateTime(date, end_slot)
             IN  IF ~(end_dt > start_dt)
                 THEN [errors |-> fe \cup {"posterior"}, start |-> start_dt, end |-> end_dt]
                 ELSE [errors |->
                          fe \cup (IF StartsInPast(start_dt, t) THEN {"pasado"} ELSE {})
                             \cup (IF space # None /\ ConflictQs(rs, space, start_dt, end_dt) # {}
                                   THEN {"conflicto"} ELSE {}),
                       start |-> start_dt, end |-> end_dt]

\* Reservation.purpose: CharField(max_length=250, blank=True)
purpose_max_length == 250

\* the form field of purpose: the value is stripped, then its length is checked
PurposeField(purpose) ==
    LET value == Strip(purpose)
    IN  [value |-> value,
         errors |-> IF Len(value) > purpose_max_length THEN {"purpose"} ELSE {}]

\* names of the Resource rows whose id is in resource_ids, in id order
RECURSIVE ResourceNames(_, _)
ResourceNames(resource_ids, id) ==
    IF id > Cardinality(DOMAIN ResourceTable) THEN <<>>
    ELSE (IF \E k \in DOMAIN resource_ids : resource_ids[k] = id
          THEN <<ResourceTable[id]>> ELSE <<>>)
         \o ResourceNames(resource_ids, id + 1)

\* the purpose stored by ReservationCreateView.form_valid
AssemblePurpose(purpose, resources, resources_notes) ==
    IF resources # <<>> \/ resources_notes # <<>>
    THEN LET partes ==
                 (IF resources # <<>>
                  THEN <<TxtRecursosSolicitados \o Join(resources, TxtComa)>> ELSE <<>>)
                 \o (IF resources_notes # <<>>
                     THEN <<TxtDetalleRecursos \o resources_notes>> ELSE <<>>)
             extra == Join(partes, TxtSepPartes)
         IN  IF purpose # <<>>
             THEN StripChars(purpose \o TxtSepPartes \o extra, {" ", "|"})
             ELSE extra
    ELSE purpose

\* the detail appended to "Nueva reserva pendiente de aprobación."
NewReservationDetail(resources, resources_notes) ==
    Join((IF resources # <<>> THEN <<TxtRecursos \o Join(resources, TxtComa)>> ELSE <<>>)
         \o (IF resources_notes # <<>> THEN <<TxtNotas \o resources_notes>> ELSE <<>>),
         <<" ">>)

\* Meta.constraints: CheckConstraint reservation_end_after_start, which the
\* database checks when a row is saved
reservation_end_after_start(r) == r.end > r.start

\* POST /reservas/nueva/ (ReservationCreateView with ReservationForm); a row
\* the check constraint refuses makes save() raise IntegrityError
CreateRequest(actor, space, date, start_slot, end_slot, texts) ==
    LET clean == ReservationFormClean(reservations, now, space, date, start_slot, end_slot)
        pf == PurposeField(texts[1])
        c == [clean EXCEPT !.errors = clean.errors \cup pf.errors]
        resources == ResourceNames(texts[2], 1)
        resources_notes == Strip(texts[3])
        rows == { Note(u, "nueva", None, NewReservationDetail(resources, resources_notes)) :
                    u \in StaffUsers \cap ProfileUsers }
        obj == [user |-> actor, space |-> space, start |-> c.start, end |-> c.end,
                purpose |-> AssemblePurpose(pf.value, resources, resources_notes),
                status |-> PENDING, cancel_reason |-> <<>>]
    IN  IF actor = Anonymous
        THEN /\ last' = Response("create", 0, {}, "login")
             /\ notified' = EmptyBag
             /\ UNCHANGED <<reservations, approvals, groups, now>>
        ELSE IF c.errors # {}
        THEN /\ last' = Response("create", 0, c.errors, "invalid")
             /\ notified' = EmptyBag
             /\ UNCHANGED <<reservations, approvals, groups, now>>
        ELSE IF ~reservation_end_after_start(obj)
        THEN /\ last' = Response("create", 0, {}, "error")
             /\ notified' = EmptyBag
             /\ UNCHANGED <<reservations, approvals, groups, now>>
        ELSE /\ Len(reservations) < MaxRes
             /\ notified' = SetToBag(rows)
             /\ reservations' = Append(reservations, obj)
             /\ last' = Response("create", Len(reservations) + 1, {}, "created")
             /\ UNCHANGED <<approvals, groups, now>>

\* The create request statement by statement, as a worker serves it: every
\* query and every insert commits on its own (no transaction is opened), and
\* another worker may run between two of them.
\* the requests in flight that will insert a reservation
CreatesInFlight ==
    Cardinality({ w \in Workers : inflight[w].pc \in {"create_valid", "create_notified"} })

\* form.is_valid(): the field checks and clean(), with its conflict query
CreateValidate(w, actor, space, date, start_slot, end_slot, texts) ==
    LET clean == ReservationFormClean(reservations, now, space, date, start_slot, end_slot)
        pf == PurposeField(texts[1])
        c == [clean EXCEPT !.errors = clean.errors \cup pf.errors]
        resources == ResourceNames(texts[2], 1)
        resources_notes == Strip(texts[3])
        rows == { Note(u, "nueva", None, NewReservationDetail(resources, resources_notes)) :
                    u \in StaffUsers \cap ProfileUsers }
        obj == [user |-> actor, space |-> space, start |-> c.start, end |-> c.end,
                purpose |-> AssemblePurpose(pf.value, resources, resources_notes),
                status |-> PENDING, cancel_reason |-> <<>>]
    IN  /\ inflight[w].pc = "idle"
        /\ notified' = EmptyBag
        /\ UNCHANGED <<reservations, approvals, groups, now>>
        /\ IF actor = Anonymous
           THEN last' = Response("create", 0, {}, "login") /\ UNCHANGED inflight
           ELSE IF c.errors # {}
           THEN last' = Response("create", 0, c.errors, "invalid") /\ UNCHANGED inflight
           ELSE /\ Len(reservations) + CreatesInFlight < MaxRes
                /\ inflight' = [inflight EXCEPT
                                  ![w] = [pc |-> "create_valid", obj |-> obj, rows |-> rows]]
                /\ UNCHANGED last

\* form_valid: the notifications of the staff users, before the row is saved
CreateNotify(w) ==
    /\ inflight[w].pc = "create_valid"
    /\ notified' = SetToBag(inflight[w].rows)
    /\ inflight' = [inflight EXCEPT ![w].pc = "create_notified"]
    /\ UNCHANGED <<reservations, approvals, groups, now, last>>

\* mutant: the conflict query is run again with the insert
CreateSaveRechecked(w) ==
    /\ inflight[w].pc = "create_notified"
    /\ notified' = EmptyBag
    /\ inflight' = [inflight EXCEPT ![w] = [pc |-> "idle"]]
    /\ UNCHANGED <<approvals, groups, now>>
    /\ IF ConflictQs(reservations, inflight[w].obj.space, inflight[w].obj.start,
                     inflight[w].obj.end) # {}
       THEN /\ last' = Response("create", 0, {"conflicto"}, "invalid")
            /\ UNCHANGED reservations
       ELSE /\ reservations' = Append(reservations, inflight[w].obj)
            /\ last' = Response("create", Len(reservations) + 1, {}, "created")

\* super().form_valid(form): form.save() inserts the row and the view redirects
CreateSave(w) ==
    /\ inflight[w].pc = "create_notified"
    /\ notified' = EmptyBag
    /\ inflight' = [inflight EXCEPT ![w] = [pc |-> "idle"]]
    /\ UNCHANGED <<approvals, groups, now>>
    /\ IF ~reservation_end_after_start(inflight[w].obj)
       THEN /\ last' = Response("create", 0, {}, "error")
            /\ UNCHANGED reservations
       ELSE /\ reservations' = Append(reservations, inflight[w].obj)
            /\ last' = Response("create", Len(reservations) + 1, {}, "created")

\* ------------------------------------------------------------- decisions
\* mutant: notes are optional for a rejection too
ApprovalFormErrorsNotesOptional(decision, notes) ==
    IF decision \in {"APPR", "REJ"} THEN {} ELSE {"decision"}

\* ApprovalForm: the decision field takes APPR or REJ; clean() wants notes to reject
ApprovalFormErrors(decision, notes) ==
    (IF decision \in {"APPR", "REJ"} THEN {} ELSE {"decision"})
    \cup (IF decision = "REJ" /\ notes = <<>> THEN {"notes"} ELSE {})

\* mutant: the query of Reservation.overlaps(), which counts PENDING too
ApprovedConflictActive(rs, pk) ==
    \E i \in DOMAIN rs :
        /\ rs[i].space = rs[pk].space
        /\ rs[i].status \in {PENDING, APPROVED}
        /\ i # pk
        /\ rs[i].start < rs[pk].end
        /\ rs[i].end > rs[pk].start

\* mutant: the query filters on PENDING instead of APPROVED
ApprovedConflictWrongStatus(rs, pk) ==
    \E i \in DOMAIN rs :
        /\ rs[i].space = rs[pk].space
        /\ rs[i].status = PENDING
        /\ i # pk
        /\ rs[i].start < rs[pk].end
        /\ rs[i].end > rs[pk].start

\* mutant: start__lt compared with the reservation's start instead of its end
ApprovedConflictWrongBound(rs, pk) ==
    \E i \in DOMAIN rs :
        /\ rs[i].space = rs[pk].space
        /\ rs[i].status = APPROVED
        /\ i # pk
        /\ rs[i].start < rs[pk].start
        /\ rs[i].end > rs[pk].start

\* the approval-time conflict query of approve_or_reject
ApprovedConflict(rs, pk) ==
    \E i \in DOMAIN rs :
        /\ rs[i].space = rs[pk].space
        /\ rs[i].status = APPROVED
        /\ i # pk
        /\ rs[i].start < rs[pk].end
        /\ rs[i].end > rs[pk].start

\* mutant: get_or_create, an existing record is left as it is
update_or_create_keep(as, pk, approver, decision, notes) ==
    IF \E a \in as : a.reservation = pk
    THEN as
    ELSE as \cup {[reservation |-> pk, approver |-> approver, decision |-> decision,
                   notes |-> notes]}

\* mutant: create, a record is added whatever the table holds
update_or_create_add(as, pk, approver, decision, notes) ==
    as \cup {[reservation |-> pk, approver |-> approver, decision |-> decision,
              notes |-> notes]}

\* Approval.objects.update_or_create(reservation=pk, defaults=...)
update_or_create(as, pk, approver, decision, notes) ==
    IF \E a \in as : a.reservation = pk
    THEN { IF a.reservation = pk
           THEN [a EXCEPT !.approver = approver, !.decision = decision, !.notes = notes]
           ELSE a : a \in as }
    ELSE as \cup {[reservation |-> pk, approver |-> approver, decision |-> decision,
                   notes |-> notes]}

\* /aprobaciones/<pk>/decidir/
DecideRequest(actor, method, pk, btn_decision, notes) ==
    LET decision == IF btn_decision \in {"approve", "reject"}
                    THEN (IF btn_decision = "approve" THEN "APPR" ELSE "REJ")
                    ELSE btn_decision
        errors == ApprovalFormErrors(decision, notes)
        reservation == reservations[pk]
        about == ReservationStr(reservation)
        quiet == /\ notified' = EmptyBag
                 /\ UNCHANGED <<reservations, approvals, groups, now>>
    IN  IF actor = Anonymous \/ ~is_staff(actor)
        THEN last' = Response("decide", 0, {}, "login") /\ quiet
        ELSE IF pk \notin DOMAIN reservations
        THEN last' = Response("decide", 0, {}, "notfound") /\ quiet
        ELSE IF method # "POST"
        THEN last' = Response("decide", 0, {}, "form") /\ quiet
        ELSE IF errors # {}
        THEN last' = Response("decide", pk, errors, "invalid") /\ quiet
        ELSE IF decision = "APPR" /\ ApprovedConflict(reservations, pk)
        THEN last' = Response("decide", pk, {}, "conflict") /\ quiet
        ELSE /\ approvals' = update_or_create(approvals, pk, actor, decision, notes)
             /\ IF decision = "APPR"
                THEN /\ reservations' = [reservations EXCEPT ![pk].status = APPROVED]
                     /\ notified' = _notify_user(reservation.user, "aprobada", about, notes)
                                    (+) notify_cleaning_staff(groups, "preparar", about, notes)
                     /\ last' = Response("decide", pk, {}, "approved")
                ELSE /\ reservations' = [reservations EXCEPT ![pk].status = REJECTED]
                     /\ notified' = _notify_user(reservation.user, "rechazada", about, notes)
                     /\ last' = Response("decide", pk, {}, "rejected")
             /\ UNCHANGED <<groups, now>>

\* The decision request statement by statement, as a worker serves it. The
\* view keeps the reservation it loaded in memory and writes all of its fields
\* back with reservation.save() at the end.
\* get_object_or_404 and the ApprovalForm
DecideLoad(w, actor, method, pk, btn_decision, notes) ==
    LET decision == IF btn_decision \in {"approve", "reject"}
                    THEN (IF btn_decision = "approve" THEN "APPR" ELSE "REJ")
                    ELSE btn_decision
        errors == ApprovalFormErrors(decision, notes)
    IN  /\ inflight[w].pc = "idle"
        /\ notified' = EmptyBag
        /\ UNCHANGED <<reservations, approvals, groups, now>>
        /\ IF actor = Anonymous \/ ~is_staff(actor)
           THEN last' = Response("decide", 0, {}, "login") /\ UNCHANGED inflight
           ELSE IF pk \notin DOMAIN reservations
           THEN last' = Response("decide", 0, {}, "notfound") /\ UNCHANGED inflight
           ELSE IF method # "POST"
           THEN last' = Response("decide", 0, {}, "form") /\ UNCHANGED inflight
           ELSE IF errors # {}
           THEN last' = Response("decide", pk, errors, "invalid") /\ UNCHANGED inflight
           ELSE /\ inflight' = [inflight EXCEPT
                                  ![w] = [pc |-> IF decision = "APPR" THEN "decide_loaded"
                                                 ELSE "decide_checked",
                                          pk |-> pk, actor |-> actor, decision |-> decision,
                                          notes |-> notes, reservation |-> reservations[pk]]]
                /\ UNCHANGED last

\* the conflict query of an approval
DecideCheck(w) ==
    /\ inflight[w].pc = "decide_loaded"
    /\ notified' = EmptyBag
    /\ UNCHANGED <<reservations, approvals, groups, now>>
    /\ IF ApprovedConflict(reservations, inflight[w].pk)
       THEN /\ last' = Response("decide", inflight[w].pk, {}, "conflict")
            /\ inflight' = [inflight EXCEPT ![w] = [pc |-> "idle"]]
       ELSE /\ inflight' = [inflight EXCEPT ![w].pc = "decide_checked"]
            /\ UNCHANGED last

\* Approval.objects.update_or_create
DecideRecord(w) ==
    /\ inflight[w].pc = "decide_checked"
    /\ approvals' = update_or_create(approvals, inflight[w].pk, inflight[w].actor,
                                     inflight[w].decision, inflight[w].notes)
    /\ notified' = EmptyBag
    /\ inflight' = [inflight EXCEPT ![w].pc = "decide_recorded"]
    /\ UNCHANGED <<reservations, groups, now, last>>

\* _notify_user for the requester
DecideTellUser(w) ==
    /\ inflight[w].pc = "decide_recorded"
    /\ notified' = _notify_user(inflight[w].reservation.user,
                                IF inflight[w].decision = "APPR" THEN "aprobada"
                                ELSE "rechazada",
                                ReservationStr(inflight[w].reservation), inflight[w].notes)
    /\ inflight' = [inflight EXCEPT
                      ![w].pc = IF inflight[w].decision = "APPR" THEN "decide_told"
                                ELSE "decide_ready"]
    /\ UNCHANGED <<reservations, approvals, groups, now, last>>

\* notify_cleaning_staff, for an approval
DecideTellGroup(w) ==
    /\ inflight[w].pc = "decide_told"
    /\ notified' = notify_cleaning_staff(groups, "preparar",
                                         ReservationStr(inflight[w].reservation),
                                         inflight[w].notes)
    /\ inflight' = [inflight EXCEPT ![w].pc = "decide_ready"]
    /\ UNCHANGED <<reservations, approvals, groups, now, last>>

\* Notification.objects.create raises (the database refuses the insert): the
\* request ends with a server error and the statements after it are not run
DecideRaise(w) ==
    /\ inflight[w].pc \in {"decide_recorded", "decide_told"}
    /\ notified' = EmptyBag
    /\ last' = Response("decide", inflight[w].pk, {}, "error")
    /\ inflight' = [inflight EXCEPT ![w] = [pc |-> "idle"]]
    /\ UNCHANGED <<reservations, approvals, groups, now>>

\* the row as reservation.save() writes it: the fields as they were loaded,
\* with the new status
DecidedRow(f) ==
    [f.reservation EXCEPT !.status = IF f.decision = "APPR" THEN APPROVED ELSE REJECTED]

\* mutant: the approved-conflict query is run again with the update
DecideSaveRechecked(w) ==
    /\ inflight[w].pc = "decide_ready"
    /\ notified' = EmptyBag
    /\ inflight' = [inflight EXCEPT ![w] = [pc |-> "idle"]]
    /\ UNCHANGED <<approvals, groups, now>>
    /\ IF inflight[w].decision = "APPR" /\ ApprovedConflict(reservations, inflight[w].pk)
       THEN /\ last' = Response("decide", inflight[w].pk, {}, "conflict")
            /\ UNCHANGED reservations
       ELSE /\ reservations' = [reservations EXCEPT ![inflight[w].pk] = DecidedRow(inflight[w])]
            /\ last' = Response("decide", inflight[w].pk, {},
                                IF inflight[w].decision = "APPR" THEN "approved"
                                ELSE "rejected")

\* reservation.save() and the redirect
DecideSave(w) ==
    /\ inflight[w].pc = "decide_ready"
    /\ notified' = EmptyBag
    /\ inflight' = [inflight EXCEPT ![w] = [pc |-> "idle"]]
    /\ UNCHANGED <<approvals, groups, now>>
    /\ reservations' = [reservations EXCEPT ![inflight[w].pk] = DecidedRow(inflight[w])]
    /\ last' = Response("decide", inflight[w].pk, {},
                        IF inflight[w].decision = "APPR" THEN "approved" ELSE "rejected")

\* ---------------------------------------------------------- cancellation
\* how many times the cancellation trace ends the purpose
RECURSIVE TraceCount(_)
TraceCount(purpose) ==
    LET n == Len(purpose)
        k == Len(TxtCancelada)
    IN  IF n >= k /\ SubSeq(purpose, n - k + 1, n) = TxtCancelada
        THEN 1 + TraceCount(SubSeq(purpose, 1, n - k))
        ELSE 0

\* mutant: the window compared with > instead of >=
can_cancel_strict(r, t) ==
    IF r.status \in {REJECTED, CANCELED} THEN FALSE
    ELSE IF r.start <= t THEN FALSE
    ELSE IF r.status = APPROVED
    THEN (r.start - t) * 60 > MIN_CANCEL_WINDOW_HOURS * 3600
    ELSE TRUE

\* mutant: a rejected reservation may still be canceled
can_cancel_rejected(r, t) ==
    IF r.status \in {CANCELED} THEN FALSE
    ELSE IF r.start <= t THEN FALSE
    ELSE IF r.status = APPROVED
    THEN (r.start - t) * 60 >= MIN_CANCEL_WINDOW_HOURS * 3600
    ELSE TRUE

\* Reservation.can_cancel
can_cancel(r, t) ==
    IF r.status \in {REJECTED, CANCELED} THEN FALSE
    ELSE IF r.start <= t THEN FALSE
    ELSE IF r.status = APPROVED
    THEN (r.start - t) * 60 >= MIN_CANCEL_WINDOW_HOURS * 3600
    ELSE TRUE

\* mutant: no early return for a reservation that is canceled already
cancel_by_user_again(r, reason) ==
    LET note == Strip(reason)
        saved == [r EXCEPT !.cancel_reason = note,
                           !.purpose = IF note # <<>>
                                       THEN (IF r.purpose # <<>>
                                             THEN r.purpose \o TxtCancelada
                                             ELSE TxtCancelada)
                                       ELSE r.purpose,
                           !.status = CANCELED]
    IN  [row |-> saved,
         created |->
             SetToBag({Note(r.user, "cancelaste", ReservationStr(saved), <<>>)})
             (+) SetToBag({ Note(admin, "cancelada_por_usuario",
                                 ReservationStr(saved), <<>>) :
                              admin \in StaffUsers })]

\* mutant: the staff users are not told
cancel_by_user_owner_only(r, reason) ==
    IF r.status = CANCELED
    THEN [row |-> r, created |-> EmptyBag]
    ELSE LET note == Strip(reason)
         IN  [row |-> [r EXCEPT !.cancel_reason = note, !.status = CANCELED],
              created |-> SetToBag({Note(r.user, "cancelaste", ReservationStr(r), <<>>)})]

\* Reservation.cancel_by_user: [row, created], the row as saved and the
\* Notification rows inserted
cancel_by_user(r, reason) ==
    IF r.status = CANCELED
    THEN [row |-> r, created |-> EmptyBag]
    ELSE LET note == Strip(reason)
             saved == [r EXCEPT !.cancel_reason = note,
                                !.purpose = IF note # <<>>
                                            THEN (IF r.purpose # <<>>
                                                  THEN r.purpose \o TxtCancelada
                                                  ELSE TxtCancelada)
                                            ELSE r.purpose,
                                !.status = CANCELED]
         IN  [row |-> saved,
              created |->
                  SetToBag({Note(r.user, "cancelaste", ReservationStr(saved), <<>>)})
                  (+) SetToBag({ Note(admin, "cancelada_por_usuario",
                                      ReservationStr(saved), <<>>) :
                                   admin \in StaffUsers })]

\* mutant: the reservation is looked up by pk alone
get_object_or_404_any_user(rs, pk, user) == pk \in DOMAIN rs

\* get_object_or_404(Reservation, pk=pk, user=request.user): is there such a row
get_object_or_404(rs, pk, user) == pk \in DOMAIN rs /\ rs[pk].user = user

\* /reservas/<pk>/cancelar/; the response to a request for a reservation of
\* another user is that of a pk that does not exist, and the request served
\* last keeps the pk only in the first case
CancelRequest(actor, method, pk, reason_in) ==
    LET quiet == /\ notified' = EmptyBag
                 /\ UNCHANGED <<reservations, approvals, groups, now>>
    IN  IF actor = Anonymous
        THEN last' = Response("cancel", 0, {}, "login") /\ quiet
        ELSE IF method # "POST"
        THEN last' = Response("cancel", 0, {}, "not_allowed") /\ quiet
        ELSE IF ~get_object_or_404(reservations, pk, actor)
        THEN last' = Response("cancel", IF pk \in DOMAIN reservations THEN pk ELSE 0,
                              {}, "notfound") /\ quiet
        ELSE IF ~can_cancel(reservations[pk], now)
        THEN last' = Response("cancel", pk, {}, "refused") /\ quiet
        ELSE LET reason == Truncate(Strip(reason_in), 255)
                 c == cancel_by_user(reservations[pk], reason)
             IN  /\ TraceCount(c.row.purpose) <= MaxTraces
                 /\ reservations' = [reservations EXCEPT ![pk] = c.row]
                 /\ notified' = c.created
                        (+) notify_cleaning_staff(groups, "cancelada_aseo",
                                                  ReservationStr(c.row), reason)
                 /\ last' = Response("cancel", pk, {}, "canceled")
                 /\ UNCHANGED <<approvals, groups, now>>

\* reservation.cancel_by_user(reason) called on a stored row, outside the view
CancelByUserCall(pk, reason) ==
    LET c == cancel_by_user(reservations[pk], reason)
    IN  /\ pk \in DOMAIN reservations
        /\ TraceCount(c.row.purpose) <= MaxTraces
        /\ reservations' = [reservations EXCEPT ![pk] = c.row]
        /\ notified' = c.created
        /\ last' = Response("cancel_by_user", pk, {},
                            IF reservations[pk].status = CANCELED THEN "noop" ELSE "canceled")
        /\ UNCHANGED <<approvals, groups, now>>

\* ------------------------------------------------------------------ clock
Tick ==
    /\ now < NowStart + MaxTicks * TickMin
    /\ now' = now + TickMin
    /\ last' = Response("tick", 0, {}, None)
    /\ notified' = EmptyBag
    /\ UNCHANGED <<reservations, approvals, groups, inflight>>

\* ----------------------------------------------------------------- export
\* s.split(ch): the parts of s between the occurrences of the character ch
RECURSIVE SplitOn(_, _)
SplitOn(s, ch) ==
    IF \E k \in DOMAIN s : s[k] = ch
    THEN LET k == CHOOSE j \in DOMAIN s : s[j] = ch /\ \A i \in 1..(j - 1) : s[i] # ch
         IN  <<SubSeq(s, 1, k - 1)>> \o SplitOn(SubSeq(s, k + 1, Len(s)), ch)
    ELSE <<s>>

\* str.lower() on the letters the texts here are written with
LowerOf ==
    [c \in {"R", "D", "S", "C", "E", "U", "O", "L", "I", "T", "A", "P", "H", "M"} |->
        CASE c = "R" -> "r" [] c = "D" -> "d" [] c = "S" -> "s" [] c = "C" -> "c"
          [] c = "E" -> "e" [] c = "U" -> "u" [] c = "O" -> "o" [] c = "L" -> "l"
          [] c = "I" -> "i" [] c = "T" -> "t" [] c = "A" -> "a" [] c = "P" -> "p"
          [] c = "H" -> "h" [] c = "M" -> "m"]

Lower(s) == [k \in DOMAIN s |-> IF s[k] \in DOMAIN LowerOf THEN LowerOf[s[k]] ELSE s[k]]

\* str.startswith
StartsWith(s, prefix) ==
    Len(s) >= Len(prefix) /\ SubSeq(s, 1, Len(prefix)) = prefix

\* part.split(":", 1)[1].strip()
AfterColon(part) == Strip(Join(Tail(SplitOn(part, ":")), <<":">>))

\* the markers split_purpose looks for in a lowered part
MarkRecursos == Lower(Strip(TxtRecursosSolicitados))
MarkDetalle == Lower(Strip(TxtDetalleRecursos))

\* the loop of split_purpose over the stripped parts; acc is
\* <<base_parts, recursos, detalle>>
RECURSIVE split_parts(_, _)
split_parts(parts, acc) ==
    IF parts = <<>> THEN acc
    ELSE LET part == Strip(Head(parts))
             low == Lower(part)
         IN  split_parts(Tail(parts),
                 IF StartsWith(low, MarkRecursos)
                 THEN <<acc[1], AfterColon(part), acc[3]>>
                 ELSE IF StartsWith(low, MarkDetalle)
                 THEN <<acc[1], acc[2], AfterColon(part)>>
                 ELSE <<Append(acc[1], part), acc[2], acc[3]>>)

\* mutant: the base parts are joined and the marked parts are dropped
split_purpose_base_only(purpose_raw) ==
    IF purpose_raw = <<>> THEN <<(<<>>), (<<>>), (<<>>)>>
    ELSE LET r == split_parts(SplitOn(purpose_raw, "|"), <<(<<>>), (<<>>), (<<>>)>>)
         IN  <<StripChars(Join(r[1], TxtSepPartes), {" ", "|"}), <<>>, <<>> >>

\* export_reservations_csv.split_purpose: <<motivo_base, recursos, detalle>>
split_purpose(purpose_raw) ==
    IF purpose_raw = <<>> THEN <<(<<>>), (<<>>), (<<>>)>>
    ELSE LET r == split_parts(SplitOn(purpose_raw, "|"), <<(<<>>), (<<>>), (<<>>)>>)
         IN  <<StripChars(Join(r[1], TxtSepPartes), {" ", "|"}), r[2], r[3]>>

\* --------------------------------------------------------- specification
Pks == 1..(Len(reservations) + 1)

Init ==
    /\ reservations = <<>>
    /\ approvals = {}
    /\ notified = EmptyBag
    /\ groups = (CLEANING_GROUP_NAME :> {"aseo1"})
    /\ now = NowStart
    /\ last = Response("none", 0, {}, None)
    /\ inflight = Idle

Create ==
    /\ \E in \in CreateInputs : CreateRequest(in[1], in[2], in[3], in[4], in[5], in[6])
    /\ UNCHANGED inflight

Decide ==
    /\ \E in \in DecideInputs, pk \in Pks : DecideRequest(in[1], in[2], pk, in[3], in[4])
    /\ UNCHANGED inflight

Cancel ==
    /\ \E in \in CancelInputs, pk \in Pks : CancelRequest(in[1], in[2], pk, in[3])
    /\ UNCHANGED inflight

CancelDirect ==
    /\ \E pk \in DOMAIN reservations, reason \in {<<>>, TxtLluvia} :
         CancelByUserCall(pk, reason)
    /\ UNCHANGED inflight

Next ==
    \/ Create
    \/ Decide
    \/ Cancel
    \/ Tick

Spec == Init /\ [][Next]_vars

\* The cancellation rule on its own: one stored reservation of any status and
\* interval, met by cancel requests at any time of the morning.
ClockInputs == { 5 * 60 + SLOT_INTERVAL_MIN * k : k \in 0..MaxClockSteps }

StoredRow(space, start_slot, end_slot, status) ==
    [user |-> "ana", space |-> space, start |-> DateTime(0, start_slot),
     end |-> DateTime(0, end_slot), purpose |-> TxtClase, status |-> status,
     cancel_reason |-> <<>>]

InitStored ==
    \E status \in {PENDING, APPROVED, REJECTED, CANCELED},
       sl \in {<<L1, L2>>, <<L2, L3>>, <<L1, L3>>}, t \in ClockInputs :
        /\ reservations = <<StoredRow("Auditorio", sl[1], sl[2], status)>>
        /\ approvals = IF status = APPROVED
                       THEN update_or_create({}, 1, "admin", "APPR", <<>>)
                       ELSE IF status = REJECTED
                       THEN update_or_create({}, 1, "admin", "REJ", TxtOk)
                       ELSE {}
        /\ notified = EmptyBag
        /\ groups = (CLEANING_GROUP_NAME :> {"aseo1"})
        /\ now = t
        /\ last = Response("none", 0, {}, None)
        /\ inflight = Idle

SpecCancelRule == InitStored /\ [][Cancel]_vars

\* The same stored reservation, canceled by the view and by cancel_by_user itself.
NextDirect ==
    \/ Cancel
    \/ CancelDirect

SpecDirect == InitStored /\ [][NextDirect]_vars

\* Decisions on reservations that are decided already: one REJECTED and one
\* APPROVED reservation of the same space, overlapping or touching, each with
\* the Approval record of the staff user who decided it, and a PENDING
\* reservation of another space that has no record yet.
RedecideInputs ==
    DecideInputs \cup { <<"root", "POST", "approve", TxtLluvia>>,
                        <<"root", "POST", "REJ", TxtLluvia>> }

InitDecided ==
    \E sl \in {<<L1, L2>>, <<L1, L3>>} :
        /\ reservations = <<StoredRow("Auditorio", sl[1], sl[2], REJECTED),
                            StoredRow("Auditorio", L2, L3, APPROVED),
                            StoredRow("Sala1", L1, L3, PENDING)>>
        /\ approvals = update_or_create(
                           update_or_create({}, 1, "root", "REJ", TxtLluvia),
                           2, "root", "APPR", <<>>)
        /\ notified = EmptyBag
        /\ groups = (CLEANING_GROUP_NAME :> {"aseo1"})
        /\ now = NowStart
        /\ last = Response("none", 0, {}, None)
        /\ inflight = Idle

Redecide ==
    /\ \E in \in RedecideInputs, pk \in Pks : DecideRequest(in[1], in[2], pk, in[3], in[4])
    /\ UNCHANGED inflight

SpecDecided == InitDecided /\ [][Redecide]_vars

\* Notifications: one stored reservation, PENDING or APPROVED, of a plain
\* user or of a staff user, two and a half hours before it starts; the
\* logistics group has two members, has none, or does not exist.
GroupTables ==
    { (CLEANING_GROUP_NAME :> {"aseo1", "aseo2"}),
      (CLEANING_GROUP_NAME :> {}),
      ("Coordinador" :> {"beto"}) }

InitNotify ==
    \E status \in {PENDING, APPROVED}, owner \in {"ana", "admin"}, gs \in GroupTables :
        /\ reservations = <<[StoredRow("Auditorio", L1, L3, status) EXCEPT !.user = owner]>>
        /\ approvals = IF status = APPROVED
                       THEN update_or_create({}, 1, "admin", "APPR", <<>>)
                       ELSE {}
        /\ notified = EmptyBag
        /\ groups = gs
        /\ now = 6 * 60
        /\ last = Response("none", 0, {}, None)
        /\ inflight = Idle

NextNotify ==
    \/ Decide
    \/ Cancel

SpecNotify == InitNotify /\ [][NextNotify]_vars

\* The slot grid on its own: build_day_slots called under settings other than
\* the ones of settings.py. The call made last and its result are kept in
\* `last`, with the two times of the settings in minutes.
SlotMinutes == { 8 * 60 + 30 + 10 * k : k \in 0..MaxSlotSteps }

\* "8:30" for 08:30: a setting written without the leading zero
Unpadded(label) == IF Head(label) = 48 THEN Tail(label) ELSE label

SlotSettings ==
    { <<i, StrfHHMM(a), StrfHHMM(b), a, b>> : i \in 1..MaxInterval, a \in SlotMinutes, b \in SlotMinutes }
    \cup { <<i, Unpadded(StrfHHMM(a)), StrfHHMM(b), a, b>> :
             i \in {SLOT_INTERVAL_MIN \div 2}, a \in SlotMinutes, b \in SlotMinutes }
    \cup { <<SLOT_INTERVAL_MIN, SLOT_DAY_START, SLOT_DAY_END, 8 * 60 + 30, 22 * 60>> }

InitSlots ==
    \E st \in SlotSettings :
        /\ reservations = <<>>
        /\ approvals = {}
        /\ notified = EmptyBag
        /\ groups = (CLEANING_GROUP_NAME :> {"aseo1"})
        /\ now = NowStart
        /\ last = [op |-> "settings", interval |-> st[1], day_start |-> st[2],
                   day_end |-> st[3], start_min |-> st[4], end_min |-> st[5],
                   result |-> <<>>]
        /\ inflight = Idle

BuildDaySlots ==
    /\ last.op = "settings"
    /\ last' = [last EXCEPT !.op = "build_day_slots",
                            !.result = build_day_slots_of(last.interval, last.day_start,
                                                          last.day_end)]
    /\ UNCHANGED <<reservations, approvals, notified, groups, now, inflight>>

SpecSlots == InitSlots /\ [][BuildDaySlots]_vars

\* The labels of a create request on their own: one request into the empty
\* table, for every pair of labels of the grid and for labels off the grid.
LabelInputs == SlotChoices \cup {OffGrid, StrfHHMM(22 * 60 + 30)}

InitLabels ==
    \E start_slot \in LabelInputs, end_slot \in LabelInputs :
        /\ reservations = <<>>
        /\ approvals = {}
        /\ notified = EmptyBag
        /\ groups = (CLEANING_GROUP_NAME :> {"aseo1"})
        /\ now = NowStart
        /\ last = [op |-> "post", start_slot |-> start_slot, end_slot |-> end_slot]
        /\ inflight = Idle

\* the request whose two labels `last` holds
CreateLabels ==
    /\ last.op = "post"
    /\ CreateRequest("ana", "Auditorio", 0, last.start_slot, last.end_slot, TextsPlain)
    /\ UNCHANGED inflight

SpecLabels == InitLabels /\ [][CreateLabels]_vars

\* The purpose on its own, from creation to export: a base purpose, the names
\* of the requested resources and the resource notes are assembled as
\* form_valid does and the result is taken apart by split_purpose. The call
\* made last and its result are kept in `last`.
TxtMarcaMayus ==
    <<"R", "E", "C", "U", "R", "S", "O", "S", " ", "S", "O", "L", "I", "C", "I", "T", "A",
      "D", "O", "S", ":", " ">>

PurposeInputs ==
    { <<>>, TxtClase, TxtClase \o <<":", " ">> \o TxtHDMI,
      TxtDetalleRecursos \o TxtOk, TxtMarcaMayus \o TxtHDMI }

ResourceInputs ==
    { <<>>, <<TxtProyector>>, <<TxtProyector, TxtHDMI>>, <<TxtHDMI \o <<" ">> >> }

NotesInputs ==
    { <<>>, TxtHDMI, TxtClase \o <<":", " ">> \o TxtOk, TxtLluvia }

InitPurpose ==
    \E base \in PurposeInputs, names \in ResourceInputs, notes \in NotesInputs :
        /\ reservations = <<>>
        /\ approvals = {}
        /\ notified = EmptyBag
        /\ groups = (CLEANING_GROUP_NAME :> {"aseo1"})
        /\ now = NowStart
        /\ last = [op |-> "form", base |-> base, names |-> names, notes |-> notes,
                   purpose |-> <<>>, result |-> <<>>]
        /\ inflight = Idle

AssembleStep ==
    /\ last.op = "form"
    /\ last' = [last EXCEPT !.op = "assembled",
                            !.purpose = AssemblePurpose(last.base, last.names, last.notes)]
    /\ UNCHANGED <<reservations, approvals, notified, groups, now, inflight>>

SplitStep ==
    /\ last.op = "assembled"
    /\ last' = [last EXCEPT !.op = "split", !.result = split_purpose(last.purpose)]
    /\ UNCHANGED <<reservations, approvals, notified, groups, now, inflight>>

NextPurpose ==
    \/ AssembleStep
    \/ SplitStep

SpecPurpose == InitPurpose /\ [][NextPurpose]_vars

\* Create requests served side by side by two workers, from the empty table.
CreateRaceInputs ==
    { <<"ana", "Auditorio", 0, L1, L3, TextsFull>>,
      <<"beto", "Auditorio", 0, L2, L3, TextsPlain>>,
      <<"beto", "Auditorio", 0, L1, L2, TextsPlain>>,
      <<"ana", "Sala1", 0, L1, L3, TextsPlain>>,
      <<"ana", "Auditorio", 0, L2, L2, TextsPlain>>,
      <<Anonymous, "Auditorio", 0, L1, L2, TextsPlain>> }

CreateBegin ==
    \E w \in Workers, in \in CreateRaceInputs :
        CreateValidate(w, in[1], in[2], in[3], in[4], in[5], in[6])

CreateTell ==
    \E w \in Workers : CreateNotify(w)

CreateEnd ==
    \E w \in Workers : CreateSave(w)

NextCreateRace ==
    \/ CreateBegin
    \/ CreateTell
    \/ CreateEnd

SpecCreateRace == Init /\ [][NextCreateRace]_vars

\* Decision requests served side by side by two workers: two stored
\* reservations of one space that overlap, the second PENDING, the first
\* PENDING (as two create requests served side by side leave them) or REJECTED.
DecideRaceInputs ==
    { <<"admin", "POST", "approve", <<>> >>,
      <<"admin", "POST", "reject", TxtOk>>,
      <<"admin", "POST", "reject", <<>> >>,
      <<"ana", "POST", "approve", <<>> >> }

InitDecideRace ==
    \E status \in {PENDING, REJECTED} :
        /\ reservations = <<StoredRow("Auditorio", L1, L3, status),
                            StoredRow("Auditorio", L2, L3, PENDING)>>
        /\ approvals = IF status = REJECTED
                       THEN update_or_create({}, 1, "root", "REJ", TxtLluvia)
                       ELSE {}
        /\ notified = EmptyBag
        /\ groups = (CLEANING_GROUP_NAME :> {"aseo1"})
        /\ now = NowStart
        /\ last = Response("none", 0, {}, None)
        /\ inflight = Idle

DecideBegin ==
    \E w \in Workers, in \in DecideRaceInputs, pk \in Pks :
        DecideLoad(w, in[1], in[2], pk, in[3], in[4])

DecideQuery ==
    \E w \in Workers : DecideCheck(w)

DecideUpsert ==
    \E w \in Workers : DecideRecord(w)

DecideTell ==
    \E w \in Workers : DecideTellUser(w) \/ DecideTellGroup(w)

DecideFail ==
    \E w \in Workers : DecideRaise(w)

DecideEnd ==
    \E w \in Workers : DecideSave(w)

NextDecideRace ==
    \/ DecideBegin
    \/ DecideQuery
    \/ DecideUpsert
    \/ DecideTell
    \/ DecideFail
    \/ DecideEnd

SpecDecideRace == InitDecideRace /\ [][NextDecideRace]_vars

\* Decisions and cancellations served one at a time on the two overlapping
\* stored reservations.
SpecCoexist == InitDecideRace /\ [][NextNotify]_vars

\* A decision request served step by step next to cancel requests: one stored
\* reservation, PENDING or APPROVED, two hours and a half before it starts.
NextCancelRace ==
    \/ DecideBegin
    \/ DecideQuery
    \/ DecideUpsert
    \/ DecideTell
    \/ DecideFail
    \/ DecideEnd
    \/ Cancel

InitCancelRace ==
    \E status \in {PENDING, APPROVED} :
        /\ reservations = <<StoredRow("Auditorio", L1, L3, status)>>
        /\ approvals = IF status = APPROVED
                       THEN update_or_create({}, 1, "admin", "APPR", <<>>)
                       ELSE {}
        /\ notified = EmptyBag
        /\ groups = (CLEANING_GROUP_NAME :> {"aseo1"})
        /\ now = 6 * 60
        /\ last = Response("none", 0, {}, None)
        /\ inflight = Idle

SpecCancelRace == InitCancelRace /\ [][NextCancelRace]_vars

\* Decision requests served step by step, one request at a time: a request
\* begins when no other is being served.
DecideBeginAlone ==
    /\ \A w \in Workers : inflight[w].pc = "idle"
    /\ DecideBegin

NextDecideSteps ==
    \/ DecideBeginAlone
    \/ DecideQuery
    \/ DecideUpsert
    \/ DecideTell
    \/ DecideFail
    \/ DecideEnd

SpecDecideSteps == InitDecideRace /\ [][NextDecideSteps]_vars

\* Purposes of every length around the maximum: create requests with a purpose
\* of n characters, with and without a resource or resource notes, for one
\* interval, and cancel requests with and without reason.
Fill(n) == [i \in 1..n |-> "x"]

PurposeLengths ==
    { 0,
      purpose_max_length - Len(TxtSepPartes \o TxtRecursosSolicitados \o TxtProyector),
      purpose_max_length - Len(TxtSepPartes \o TxtRecursosSolicitados \o TxtProyector) + 1,
      purpose_max_length - Len(TxtCancelada),
      purpose_max_length - Len(TxtCancelada) + 1,
      purpose_max_length,
      purpose_max_length + 1 }

LongCreateInputs ==
    { <<"ana", "Auditorio", 0, L1, L2, <<Fill(n), extra[1], extra[2]>> >> :
        n \in PurposeLengths,
        extra \in {<<(<<>>), (<<>>)>>, <<(<<1>>), (<<>>)>>, <<(<<>>), TxtHDMI>>} }

CreateLong ==
    /\ \E in \in LongCreateInputs : CreateRequest(in[1], in[2], in[3], in[4], in[5], in[6])
    /\ UNCHANGED inflight

NextPurposeLength ==
    \/ CreateLong
    \/ Cancel

SpecPurposeLength == Init /\ [][NextPurposeLength]_vars

\* ================================================================ claims
\* half-open intervals [s1, e1) and [s2, e2) intersect
Overlap(s1, e1, s2, e2) == s1 < e2 /\ e1 > s2

ActiveStatus(st) == st = PENDING \/ st = APPROVED

\* a create request that reaches the conflict check with an interval end > start
WellFormed(in) ==
    /\ in[1] # Anonymous
    /\ in[2] \in Spaces
    /\ in[4] \in SlotChoices
    /\ in[5] \in SlotChoices
    /\ DateTime(in[3], in[5]) > DateTime(in[3], in[4])

\* some active reservation of the request's space overlaps the requested interval
OverlapsActive(in) ==
    \E i \in DOMAIN reservations :
        /\ reservations[i].space = in[2]
        /\ ActiveStatus(reservations[i].status)
        /\ Overlap(reservations[i].start, reservations[i].end,
                   DateTime(in[3], in[4]), DateTime(in[3], in[5]))

\* C1: no two distinct PENDING or APPROVED reservations of one space overlap.
C1_NoActiveOverlap ==
    \A i, j \in DOMAIN reservations :
        (/\ i # j
         /\ reservations[i].space = reservations[j].space
         /\ ActiveStatus(reservations[i].status)
         /\ ActiveStatus(reservations[j].status))
        => ~Overlap(reservations[i].start, reservations[i].end,
                    reservations[j].start, reservations[j].end)

\* C2: no two distinct APPROVED reservations of one space overlap.
C2_NoApprovedOverlap ==
    \A i, j \in DOMAIN reservations :
        (/\ i # j
         /\ reservations[i].space = reservations[j].space
         /\ reservations[i].status = APPROVED
         /\ reservations[j].status = APPROVED)
        => ~Overlap(reservations[i].start, reservations[i].end,
                    reservations[j].start, reservations[j].end)

\* C2 witness: an approval was just granted while another reservation of the
\* same space is APPROVED.
C2_Witness ==
    /\ last.op = "decide"
    /\ last.result = "approved"
    /\ \E j \in DOMAIN reservations :
        /\ j # last.pk
        /\ reservations[j].space = reservations[last.pk].space
        /\ reservations[j].status = APPROVED

\* C3: a create request that reaches the conflict check reports a conflict
\* exactly when an active reservation of the space has start < end and
\* end > start of the candidate; touching intervals are no conflict.
C3_ConflictIffOverlap ==
    [][\A in \in CreateInputs :
        (/\ last'.op = "create"
         /\ WellFormed(in)
         /\ CreateRequest(in[1], in[2], in[3], in[4], in[5], in[6]))
        => /\ ("conflicto" \in last'.errors) <=> OverlapsActive(in)
           /\ (\A i \in DOMAIN reservations :
                 (reservations[i].space = in[2] /\ ActiveStatus(reservations[i].status))
                 => \/ reservations[i].end = DateTime(in[3], in[4])
                    \/ reservations[i].start = DateTime(in[3], in[5]))
              => "conflicto" \notin last'.errors]_vars

\* C3 witness: a reservation was just created that starts exactly when an
\* active reservation of the same space ends.
C3_Witness ==
    /\ last.op = "create"
    /\ last.result = "created"
    /\ \E j \in DOMAIN reservations :
        /\ j # last.pk
        /\ reservations[j].space = reservations[last.pk].space
        /\ ActiveStatus(reservations[j].status)
        /\ reservations[j].end = reservations[last.pk].start

\* C4: a create request whose interval overlaps an active reservation of the
\* space is answered with a validation error, persists no reservation and
\* inserts no notification.
C4_ConflictMutatesNothing ==
    [][\A in \in CreateInputs :
        (/\ last'.op = "create"
         /\ WellFormed(in)
         /\ OverlapsActive(in)
         /\ CreateRequest(in[1], in[2], in[3], in[4], in[5], in[6]))
        => /\ last'.result = "invalid"
           /\ reservations' = reservations
           /\ approvals' = approvals
           /\ notified' = EmptyBag]_vars

\* C4 witness: a create request was just refused for a conflict.
C4_Witness ==
    /\ last.op = "create"
    /\ last.result = "invalid"
    /\ "conflicto" \in last.errors
    /\ reservations # <<>>

\* C5: a reservation persisted by a create request is PENDING and does not
\* start before the time of the request; a request whose start is in the past
\* persists nothing.
C5_CreatedPendingNotPast ==
    [][/\ (last'.op = "create" /\ last'.result = "created")
          => /\ Len(reservations') = Len(reservations) + 1
             /\ last'.pk = Len(reservations')
             /\ reservations'[last'.pk].status = PENDING
             /\ reservations'[last'.pk].start >= now
       /\ \A in \in CreateInputs :
            (/\ last'.op = "create"
             /\ WellFormed(in)
             /\ DateTime(in[3], in[4]) < now
             /\ CreateRequest(in[1], in[2], in[3], in[4], in[5], in[6]))
            => /\ reservations' = reservations
               /\ last'.result = "invalid"]_vars

\* C5 witness: a create request was just refused because it starts in the past.
C5_Witness ==
    /\ last.op = "create"
    /\ last.result = "invalid"
    /\ "pasado" \in last.errors

\* a decision request that asks to approve / to reject
AsksApprove(in) == in[3] \in {"approve", "APPR"}
AsksReject(in) == in[3] \in {"reject", "REJ"}

\* another APPROVED reservation of pk's space overlaps pk
OtherApprovedOverlaps(pk) ==
    \E j \in DOMAIN reservations :
        /\ j # pk
        /\ reservations[j].space = reservations[pk].space
        /\ reservations[j].status = APPROVED
        /\ Overlap(reservations[j].start, reservations[j].end,
                   reservations[pk].start, reservations[pk].end)

\* C6: an approve request for a reservation that another APPROVED reservation
\* of the space overlaps changes no reservation, no Approval row and inserts
\* no notification.
C6_ApproveRefusedOnConflict ==
    [][\A in \in DecideInputs, pk \in DOMAIN reservations :
        (/\ last'.op = "decide"
         /\ AsksApprove(in)
         /\ OtherApprovedOverlaps(pk)
         /\ DecideRequest(in[1], in[2], pk, in[3], in[4]))
        => /\ last'.result \in {"conflict", "login", "form"}
           /\ reservations' = reservations
           /\ approvals' = approvals
           /\ notified' = EmptyBag]_vars

\* C6 witness: an approval of a PENDING reservation was just refused for a
\* conflict with an APPROVED one.
C6_Witness ==
    /\ last.op = "decide"
    /\ last.result = "conflict"
    /\ reservations[last.pk].status = PENDING
    /\ OtherApprovedOverlaps(last.pk)

\* C7: a reject request with empty notes changes no reservation, no Approval
\* row and inserts no notification.
C7_RejectNeedsNotes ==
    [][\A in \in DecideInputs, pk \in DOMAIN reservations :
        (/\ last'.op = "decide"
         /\ AsksReject(in)
         /\ in[4] = <<>>
         /\ DecideRequest(in[1], in[2], pk, in[3], in[4]))
        => /\ last'.result \in {"invalid", "login", "form"}
           /\ reservations' = reservations
           /\ approvals' = approvals
           /\ notified' = EmptyBag]_vars

\* C7 witness: a rejection without notes was just refused by the form.
C7_Witness ==
    /\ last.op = "decide"
    /\ last.result = "invalid"
    /\ "notes" \in last.errors
    /\ approvals = {}

\* the cancellation rule as the specification words it
MayCancel(r, t) ==
    /\ ActiveStatus(r.status)
    /\ r.start > t
    /\ (r.status = APPROVED => (r.start - t) >= MIN_CANCEL_WINDOW_HOURS * 60)

\* a cancel request of the owner that reaches can_cancel
OwnerCancels(in, pk) ==
    /\ pk \in DOMAIN reservations
    /\ in[1] = reservations[pk].user
    /\ in[2] = "POST"

\* C8: the owner's cancel request goes through exactly when the reservation is
\* PENDING or APPROVED, starts after now and, if APPROVED, starts at least
\* MIN_CANCEL_WINDOW_HOURS hours after now.
C8_CanCancelRule ==
    [][\A in \in CancelInputs, pk \in DOMAIN reservations :
        (/\ last'.op = "cancel"
         /\ OwnerCancels(in, pk)
         /\ CancelRequest(in[1], in[2], pk, in[3]))
        => /\ last'.result \in {"canceled", "refused"}
           /\ (last'.result = "canceled") <=> MayCancel(reservations[pk], now)]_vars

\* C8 witness: an APPROVED reservation (its Approval row says so) was just
\* canceled with a lead time exactly equal to the window.
C8_Witness ==
    /\ last.op = "cancel"
    /\ last.result = "canceled"
    /\ \E a \in approvals : a.reservation = last.pk /\ a.decision = "APPR"
    /\ reservations[last.pk].start - now = MIN_CANCEL_WINDOW_HOURS * 60

\* the cases in which cancellation is refused, as the specification lists them
CancelRefusedCase(r, t) ==
    \/ r.status \in {REJECTED, CANCELED}
    \/ r.start <= t
    \/ (r.status = APPROVED /\ (r.start - t) < MIN_CANCEL_WINDOW_HOURS * 60)

\* C9: a cancel request for a reservation that is REJECTED or CANCELED, has
\* started, or is APPROVED inside the minimum window changes no reservation
\* (status, cancel_reason, purpose) and inserts no notification.
C9_RefusedCancelMutatesNothing ==
    [][\A in \in CancelInputs, pk \in DOMAIN reservations :
        (/\ last'.op = "cancel"
         /\ CancelRefusedCase(reservations[pk], now)
         /\ CancelRequest(in[1], in[2], pk, in[3]))
        => /\ reservations' = reservations
           /\ approvals' = approvals
           /\ notified' = EmptyBag]_vars

\* C9 witness: the owner's cancel request was just refused for an APPROVED
\* reservation inside the minimum window.
C9_Witness ==
    /\ last.op = "cancel"
    /\ last.result = "refused"
    /\ reservations[last.pk].status = APPROVED
    /\ reservations[last.pk].start > now

\* C10: canceling a CANCELED reservation, by the cancel request or by
\* cancel_by_user itself, changes no reservation and inserts no notification.
C10_CancelIdempotent ==
    [][/\ \A in \in CancelInputs, pk \in DOMAIN reservations :
            (/\ last'.op = "cancel"
             /\ reservations[pk].status = CANCELED
             /\ CancelRequest(in[1], in[2], pk, in[3]))
            => /\ reservations' = reservations
               /\ notified' = EmptyBag
       /\ \A pk \in DOMAIN reservations, reason \in {<<>>, TxtLluvia} :
            (/\ last'.op = "cancel_by_user"
             /\ reservations[pk].status = CANCELED
             /\ CancelByUserCall(pk, reason))
            => /\ reservations' = reservations
               /\ notified' = EmptyBag]_vars

\* C10 witness: cancel_by_user was just called with a reason on a reservation
\* that was CANCELED without one.
C10_Witness ==
    /\ last.op = "cancel_by_user"
    /\ last.result = "noop"
    /\ reservations[last.pk].status = CANCELED
    /\ reservations[last.pk].cancel_reason = <<>>

\* C11: once a reservation is REJECTED or CANCELED, no request changes its
\* status again.
C11_TerminalStatuses ==
    [][\A pk \in DOMAIN reservations :
            reservations[pk].status \in {REJECTED, CANCELED}
            => reservations'[pk].status = reservations[pk].status]_vars

\* the Approval records of reservation pk in the table as
ApprovalsOf(as, pk) == { a \in as : a.reservation = pk }

\* C12: a decision request of a staff user on a reservation that is APPROVED
\* or REJECTED already passes the checks of a first decision and no other: an
\* approval without an overlapping APPROVED reservation makes it APPROVED, a
\* rejection with notes makes it REJECTED, both replace the Approval record,
\* and any other request changes nothing.
C12_RedecideReplaces ==
    [][\A in \in RedecideInputs, pk \in DOMAIN reservations :
            (/\ last'.op = "decide"
             /\ reservations[pk].status \in {APPROVED, REJECTED}
             /\ in[1] \in StaffUsers
             /\ in[2] = "POST"
             /\ DecideRequest(in[1], in[2], pk, in[3], in[4]))
            => IF \/ AsksApprove(in) /\ ~OtherApprovedOverlaps(pk)
                  \/ AsksReject(in) /\ in[4] # <<>>
               THEN /\ reservations'[pk].status =
                           (IF AsksApprove(in) THEN APPROVED ELSE REJECTED)
                    /\ ApprovalsOf(approvals', pk) =
                           {[reservation |-> pk, approver |-> in[1],
                             decision |-> IF AsksApprove(in) THEN "APPR" ELSE "REJ",
                             notes |-> in[4]]}
               ELSE /\ reservations' = reservations
                    /\ approvals' = approvals]_vars

\* C12 witness: the reservation stored as REJECTED is APPROVED and the one
\* stored as APPROVED is REJECTED, each with the record of the new decision.
C12_Witness ==
    /\ Len(reservations) = 3
    /\ reservations[1].status = APPROVED
    /\ reservations[2].status = REJECTED
    /\ ApprovalsOf(approvals, 1) =
           {[reservation |-> 1, approver |-> "admin", decision |-> "APPR", notes |-> <<>>]}
    /\ ApprovalsOf(approvals, 2) =
           {[reservation |-> 2, approver |-> "admin", decision |-> "REJ", notes |-> TxtOk]}
    /\ last.op = "decide"
    /\ last.result = "approved"

\* C13: a reservation never has two Approval records; a decision request that
\* succeeds leaves for its reservation the one record holding the approver,
\* the decision and the notes of that request and leaves the records of the
\* other reservations alone, and a request that does not succeed changes no
\* record.
C13_OneApprovalLatestDecision ==
    /\ [](\A pk \in DOMAIN reservations : Cardinality(ApprovalsOf(approvals, pk)) <= 1)
    /\ [][\A in \in RedecideInputs, pk \in Pks :
            (/\ last'.op = "decide"
             /\ DecideRequest(in[1], in[2], pk, in[3], in[4]))
            => IF last'.result \in {"approved", "rejected"}
               THEN /\ ApprovalsOf(approvals', pk) =
                           {[reservation |-> pk, approver |-> in[1],
                             decision |-> reservations'[pk].status,
                             notes |-> in[4]]}
                    /\ approvals' \ ApprovalsOf(approvals', pk)
                           = approvals \ ApprovalsOf(approvals, pk)
               ELSE approvals' = approvals]_vars

\* C13 witness: the three stored reservations each have one record, the first
\* rejected again by another staff user with other notes, the third decided
\* for the first time.
C13_Witness ==
    /\ Len(reservations) = 3
    /\ \A pk \in 1..3 : Cardinality(ApprovalsOf(approvals, pk)) = 1
    /\ [reservation |-> 1, approver |-> "admin", decision |-> "REJ", notes |-> TxtOk]
           \in approvals
    /\ [reservation |-> 3, approver |-> "root", decision |-> "APPR", notes |-> TxtLluvia]
           \in approvals
    /\ last.op = "decide"
    /\ last.pk = 1
    /\ last.result = "rejected"

\* C14: a cancel request of a user who does not own the reservation changes
\* no reservation, no Approval record and inserts no notification, and a
\* status becomes CANCELED only by a cancel request of the reservation's owner.
C14_OnlyOwnerCancels ==
    [][/\ \A in \in CancelInputs, pk \in DOMAIN reservations :
            (/\ last'.op = "cancel"
             /\ reservations[pk].user # in[1]
             /\ CancelRequest(in[1], in[2], pk, in[3]))
            => /\ reservations' = reservations
               /\ approvals' = approvals
               /\ notified' = EmptyBag
       /\ \A pk \in DOMAIN reservations :
            (/\ reservations[pk].status # CANCELED
             /\ reservations'[pk].status = CANCELED)
            => /\ last'.op = "cancel"
               /\ \E in \in CancelInputs :
                    /\ in[1] = reservations[pk].user
                    /\ CancelRequest(in[1], in[2], pk, in[3])]_vars

\* C14 witness: a cancel request for a reservation of another user was just
\* answered, and the reservation is one its owner may still cancel.
C14_Witness ==
    /\ last.op = "cancel"
    /\ last.result = "notfound"
    /\ last.pk \in DOMAIN reservations
    /\ reservations[last.pk].status = APPROVED
    /\ MayCancel(reservations[last.pk], now)

\* C15: a decision request of a user without is_staff changes no reservation,
\* no Approval record and inserts no notification, and a status becomes
\* APPROVED or REJECTED only by a decision request of a staff user.
C15_OnlyStaffDecides ==
    [][/\ \A in \in DecideInputs, pk \in Pks :
            (/\ last'.op = "decide"
             /\ in[1] \notin StaffUsers
             /\ DecideRequest(in[1], in[2], pk, in[3], in[4]))
            => /\ reservations' = reservations
               /\ approvals' = approvals
               /\ notified' = EmptyBag
       /\ \A pk \in DOMAIN reservations :
            (/\ reservations'[pk].status \in {APPROVED, REJECTED}
             /\ reservations'[pk].status # reservations[pk].status)
            => /\ last'.op = "decide"
               /\ \E in \in DecideInputs :
                    /\ in[1] \in StaffUsers
                    /\ DecideRequest(in[1], in[2], pk, in[3], in[4])]_vars

\* C15 witness: a decision request was just sent back to the login page while
\* a PENDING reservation that nothing overlaps waits for its decision.
C15_Witness ==
    /\ last.op = "decide"
    /\ last.result = "login"
    /\ \E pk \in DOMAIN reservations :
        /\ reservations[pk].status = PENDING
        /\ ~OtherApprovedOverlaps(pk)
        /\ ApprovalsOf(approvals, pk) = {}

\* the members of the logistics group, none if there is no such group
LogisticsMembers ==
    IF CLEANING_GROUP_NAME \in DOMAIN groups THEN groups[CLEANING_GROUP_NAME] ELSE {}

\* one notification of a kind for each user of a set
OneEach(users, kind, about, detail) ==
    SetToBag({ Note(u, kind, about, detail) : u \in users })

\* C16: a cancel request of the owner that the cancellation rule allows sets
\* the status to CANCELED, stores the reason of the request (without the
\* surrounding blanks, 255 characters at most) in cancel_reason, and inserts
\* one notification for the owner, one for each staff user and one "no longer
\* needed" notification for each member of the logistics group, and no other.
C16_CancelEffects ==
    [][\A in \in CancelInputs, pk \in DOMAIN reservations :
            (/\ last'.op = "cancel"
             /\ in[1] = reservations[pk].user
             /\ in[2] = "POST"
             /\ MayCancel(reservations[pk], now)
             /\ CancelRequest(in[1], in[2], pk, in[3]))
            => LET reason == Truncate(Strip(in[3]), 255)
                   about == ReservationStr(reservations[pk])
               IN  /\ reservations'[pk].status = CANCELED
                   /\ reservations'[pk].cancel_reason = reason
                   /\ notified' =
                        OneEach({reservations[pk].user}, "cancelaste", about, <<>>)
                        (+) OneEach(StaffUsers, "cancelada_por_usuario", about, <<>>)
                        (+) OneEach(LogisticsMembers, "cancelada_aseo", about, reason)]_vars

\* C16 witness: a staff user just canceled their own reservation with a
\* reason; they are told as the owner and as staff, and the two members of the
\* logistics group are told with the reason.
C16_Witness ==
    /\ last.op = "cancel"
    /\ last.result = "canceled"
    /\ reservations[1].user = "admin"
    /\ reservations[1].status = CANCELED
    /\ reservations[1].cancel_reason = TxtLluvia
    /\ BagCardinality(notified) = 5
    /\ LogisticsMembers = {"aseo1", "aseo2"}

\* C17: a decision request that approves inserts one notification for the
\* requester and one "prepare space" notification for each member of the
\* logistics group, and no other; one that rejects inserts one notification
\* for the requester, carrying the notes of the rejection, and no other.
C17_DecisionNotifications ==
    [][\A in \in DecideInputs, pk \in DOMAIN reservations :
            (/\ last'.op = "decide"
             /\ in[1] \in StaffUsers
             /\ in[2] = "POST"
             /\ DecideRequest(in[1], in[2], pk, in[3], in[4]))
            => LET about == ReservationStr(reservations[pk])
                   requester == {reservations[pk].user}
               IN  /\ (AsksApprove(in) /\ ~OtherApprovedOverlaps(pk))
                      => /\ reservations'[pk].status = APPROVED
                         /\ notified' =
                              OneEach(requester, "aprobada", about, in[4])
                              (+) OneEach(LogisticsMembers, "preparar", about, in[4])
                   /\ (AsksReject(in) /\ in[4] # <<>>)
                      => /\ reservations'[pk].status = REJECTED
                         /\ notified' = OneEach(requester, "rechazada", about, in[4])]_vars

\* C17 witness: an approval just told the requester and the two members of the
\* logistics group.
C17_Witness ==
    /\ last.op = "decide"
    /\ last.result = "approved"
    /\ reservations[1].status = APPROVED
    /\ LogisticsMembers = {"aseo1", "aseo2"}
    /\ BagCardinality(notified) = 3
    /\ \E n \in BagToSet(notified) : n.kind = "aprobada" /\ n.user = reservations[1].user

\* C18: without the logistics group, an approval and an owner's cancel that
\* pass their checks are answered as successes, write the status and insert
\* the notifications of the requester (and of the staff users, for a cancel),
\* and insert no notification of the logistics kind.
C18_MissingGroupIsNoError ==
    [][/\ \A in \in DecideInputs, pk \in DOMAIN reservations :
            (/\ last'.op = "decide"
             /\ CLEANING_GROUP_NAME \notin DOMAIN groups
             /\ in[1] \in StaffUsers
             /\ in[2] = "POST"
             /\ AsksApprove(in)
             /\ ~OtherApprovedOverlaps(pk)
             /\ DecideRequest(in[1], in[2], pk, in[3], in[4]))
            => /\ last'.result = "approved"
               /\ reservations'[pk].status = APPROVED
               /\ notified' = OneEach({reservations[pk].user}, "aprobada",
                                      ReservationStr(reservations[pk]), in[4])
       /\ \A in \in CancelInputs, pk \in DOMAIN reservations :
            (/\ last'.op = "cancel"
             /\ CLEANING_GROUP_NAME \notin DOMAIN groups
             /\ in[1] = reservations[pk].user
             /\ in[2] = "POST"
             /\ MayCancel(reservations[pk], now)
             /\ CancelRequest(in[1], in[2], pk, in[3]))
            => /\ last'.result = "canceled"
               /\ reservations'[pk].status = CANCELED
               /\ notified' =
                    OneEach({reservations[pk].user}, "cancelaste",
                            ReservationStr(reservations[pk]), <<>>)
                    (+) OneEach(StaffUsers, "cancelada_por_usuario",
                                ReservationStr(reservations[pk]), <<>>)]_vars

\* C18 witness: there is no logistics group and the owner just canceled a
\* reservation that had been approved; the owner and the two staff users are
\* told and nobody else.
C18_Witness ==
    /\ CLEANING_GROUP_NAME \notin DOMAIN groups
    /\ last.op = "cancel"
    /\ last.result = "canceled"
    /\ reservations[1].status = CANCELED
    /\ reservations[1].user = "ana"
    /\ ApprovalsOf(approvals, 1) # {}
    /\ BagCardinality(notified) = 3
    /\ \A n \in BagToSet(notified) : n.kind \in {"cancelaste", "cancelada_por_usuario"}

\* a create request that names a space and two labels of the grid
OnGrid(in) == in[2] \in Spaces /\ in[4] \in SlotChoices /\ in[5] \in SlotChoices

\* C19: every stored reservation ends after it starts; a create request whose
\* end is not after its start is refused by the form and stores nothing; and
\* no request changes the start or the end of a stored reservation.
C19_EndAfterStart ==
    /\ [](\A pk \in DOMAIN reservations : reservations[pk].end > reservations[pk].start)
    /\ [][/\ \A in \in CreateInputs :
                (/\ last'.op = "create"
                 /\ in[1] # Anonymous
                 /\ OnGrid(in)
                 /\ ~(DateTime(in[3], in[5]) > DateTime(in[3], in[4]))
                 /\ CreateRequest(in[1], in[2], in[3], in[4], in[5], in[6]))
                => /\ last'.result = "invalid"
                   /\ reservations' = reservations
                   /\ notified' = EmptyBag
          /\ \A pk \in DOMAIN reservations :
                /\ pk \in DOMAIN reservations'
                /\ reservations'[pk].start = reservations[pk].start
                /\ reservations'[pk].end = reservations[pk].end]_vars

\* C19 witness: a create request whose end is not after its start was just
\* refused, after a reservation of the same space was stored, approved and
\* canceled with its start and end as they were.
C19_Witness ==
    /\ last.op = "create"
    /\ last.result = "invalid"
    /\ last.errors \cap {"termino", "posterior"} # {}
    /\ Len(reservations) = 1
    /\ reservations[1].status = CANCELED
    /\ ApprovalsOf(approvals, 1) # {}
    /\ reservations[1].end > reservations[1].start

\* the first label is the day start, each label is the one before plus the
\* interval, and the labels increase
SlotsStepFromStart(out, start_min, interval) ==
    /\ out # <<>>
    /\ \A i \in DOMAIN out : out[i] = StrfHHMM(start_min + (i - 1) * interval)
    /\ \A i \in 1..(Len(out) - 1) : StrLess(out[i], out[i + 1])

\* C20 as stated: for an interval of at least one minute and a day start not
\* after the day end, the labels step from the day start by the interval,
\* increase, and the last label is the day end.
C20_SlotsEndAtDayEnd ==
    (/\ last.op = "build_day_slots"
     /\ last.interval >= 1
     /\ last.start_min <= last.end_min)
    => /\ SlotsStepFromStart(last.result, last.start_min, last.interval)
       /\ last.result[Len(last.result)] = StrfHHMM(last.end_min)

\* C20 amended: for an interval of at least one minute and a day start not
\* after the day end, the labels step from the day start by the interval,
\* increase, and the last label is the last step that is not after the day
\* end: the day end itself exactly when the interval divides the length of
\* the day.
C20_SlotsUpToDayEnd ==
    (/\ last.op = "build_day_slots"
     /\ last.interval >= 1
     /\ last.start_min <= last.end_min)
    => LET out == last.result
           span == last.end_min - last.start_min
       IN  /\ SlotsStepFromStart(out, last.start_min, last.interval)
           /\ Len(out) = (span \div last.interval) + 1
           /\ (out[Len(out)] = StrfHHMM(last.end_min)) <=> (span % last.interval = 0)

\* C20 witness: a grid of three labels from 08:30 every 12 minutes for a day
\* that ends at 09:00; the last label is 08:54.
C20_Witness ==
    /\ last.op = "build_day_slots"
    /\ last.interval = 12
    /\ last.start_min = 8 * 60 + 30
    /\ last.end_min = 9 * 60
    /\ Len(last.result) = 3
    /\ last.result[3] = StrfHHMM(8 * 60 + 54)

\* minutes since 00:00 of the time a label of the grid stands for
LabelMinutes(label) ==
    LET i == CHOOSE k \in DOMAIN build_day_slots : build_day_slots[k] = label
    IN  8 * 60 + 30 + (i - 1) * SLOT_INTERVAL_MIN

\* C21: a create request with a label that is not on the grid, or with an end
\* label whose time is not after the time of the start label, is answered as
\* invalid and stores nothing; and for two labels of the grid end_slot <=
\* start_slot as strings says the same as end <= start as times.
C21_LabelsValidated ==
    [][(last.op = "post" /\ last'.op = "create")
       => /\ (\/ last.start_slot \notin SlotChoices
              \/ last.end_slot \notin SlotChoices
              \/ LabelMinutes(last.end_slot) <= LabelMinutes(last.start_slot))
             => /\ last'.result = "invalid"
                /\ reservations' = reservations
                /\ notified' = EmptyBag
          /\ (last.start_slot \in SlotChoices /\ last.end_slot \in SlotChoices)
             => (StrLeq(last.end_slot, last.start_slot)
                   <=> LabelMinutes(last.end_slot) <= LabelMinutes(last.start_slot))]_vars

\* C21 witness: a request from 09:30 to 10:00, where the hour changes its
\* first digit, was stored.
C21_Witness ==
    /\ last.op = "create"
    /\ last.result = "created"
    /\ Len(reservations) = 1
    /\ reservations[1].start = 9 * 60 + 30
    /\ reservations[1].end = 10 * 60

\* a text without the character '|'
NoBar(s) == \A k \in DOMAIN s : s[k] # "|"

\* a text without a blank at either end
NoEndBlanks(s) == Strip(s) = s

\* C22 as stated: a purpose assembled from a base purpose, resource names and
\* resource notes without '|' is split into the base purpose, the joined
\* names and the notes.
C22_PurposeRoundTrip ==
    (/\ last.op = "split"
     /\ NoBar(last.base)
     /\ \A k \in DOMAIN last.names : NoBar(last.names[k])
     /\ NoBar(last.notes))
    => last.result = <<last.base, Join(last.names, TxtComa), last.notes>>

\* C22 amended: the same, for a base purpose that does not begin with
\* "Recursos solicitados:" or "Detalle recursos:" in any letter case, and for
\* a base purpose, joined names and notes without a blank at either end.
C22_PurposeRoundTripUnmarked ==
    (/\ last.op = "split"
     /\ NoBar(last.base)
     /\ \A k \in DOMAIN last.names : NoBar(last.names[k])
     /\ NoBar(last.notes)
     /\ ~StartsWith(Lower(last.base), MarkRecursos)
     /\ ~StartsWith(Lower(last.base), MarkDetalle)
     /\ NoEndBlanks(last.base)
     /\ NoEndBlanks(Join(last.names, TxtComa))
     /\ NoEndBlanks(last.notes))
    => last.result = <<last.base, Join(last.names, TxtComa), last.notes>>

\* C22 witness: "Clase: HDMI | Recursos solicitados: Proyector, HDMI | Detalle
\* recursos: Clase: ok" was split into its three parts.
C22_Witness ==
    /\ last.op = "split"
    /\ last.base = TxtClase \o <<":", " ">> \o TxtHDMI
    /\ last.names = <<TxtProyector, TxtHDMI>>
    /\ last.notes = TxtClase \o <<":", " ">> \o TxtOk
    /\ Len(SplitOn(last.purpose, "|")) = 3
    /\ last.result = <<last.base, TxtProyector \o TxtComa \o TxtHDMI, last.notes>>

\* C23: a create request that has passed the conflict check stores its
\* reservation as PENDING even when another worker has stored an overlapping
\* active reservation of the space since the check, and that is the only way
\* a reservation is stored.
C23_CreateRace ==
    [][/\ \A w \in Workers :
            (inflight[w].pc = "create_notified" /\ inflight'[w].pc = "idle")
            => /\ reservations' = Append(reservations, inflight[w].obj)
               /\ inflight[w].obj.status = PENDING
       /\ reservations' # reservations
            => \E w \in Workers :
                 inflight[w].pc = "create_notified" /\ inflight'[w].pc = "idle"]_vars

\* C23 witness: two requests for overlapping intervals of one space were both
\* stored, and both reservations are PENDING.
C23_Witness ==
    /\ Len(reservations) = 2
    /\ reservations[1].space = reservations[2].space
    /\ reservations[1].status = PENDING
    /\ reservations[2].status = PENDING
    /\ Overlap(reservations[1].start, reservations[1].end,
               reservations[2].start, reservations[2].end)
    /\ last.op = "create"
    /\ last.result = "created"
    /\ inflight = Idle

\* C24: an approve request that has passed the approved-conflict check writes
\* APPROVED even when another worker has approved an overlapping reservation
\* of the space since the check, and a status is written by the save of a
\* decision request only.
C24_ApproveRace ==
    [][/\ \A w \in Workers :
            (inflight[w].pc = "decide_ready" /\ inflight'[w].pc = "idle")
            => reservations'[inflight[w].pk].status =
                   (IF inflight[w].decision = "APPR" THEN APPROVED ELSE REJECTED)
       /\ reservations' # reservations
            => \E w \in Workers :
                 inflight[w].pc = "decide_ready" /\ inflight'[w].pc = "idle"]_vars

\* C24 witness: the approvals of two overlapping reservations of one space
\* were served side by side and both reservations are APPROVED.
C24_Witness ==
    /\ Len(reservations) = 2
    /\ reservations[1].space = reservations[2].space
    /\ Overlap(reservations[1].start, reservations[1].end,
               reservations[2].start, reservations[2].end)
    /\ reservations[1].status = APPROVED
    /\ reservations[2].status = APPROVED
    /\ last.op = "decide"
    /\ last.result = "approved"
    /\ inflight = Idle

\* C25: an approve request of a staff user for a reservation that no other
\* APPROVED reservation of its space overlaps succeeds, whatever PENDING,
\* REJECTED or CANCELED reservations overlap it, and changes no other
\* reservation: an overlapping PENDING reservation stays PENDING.
C25_OnlyApprovedBlocks ==
    [][\A in \in DecideInputs, pk \in DOMAIN reservations :
            (/\ last'.op = "decide"
             /\ in[1] \in StaffUsers
             /\ in[2] = "POST"
             /\ AsksApprove(in)
             /\ ~OtherApprovedOverlaps(pk)
             /\ DecideRequest(in[1], in[2], pk, in[3], in[4]))
            => /\ last'.result = "approved"
               /\ reservations'[pk].status = APPROVED
               /\ \A j \in DOMAIN reservations : j # pk => reservations'[j] = reservations[j]]_vars

\* C25 witness: a reservation was just approved while a PENDING reservation
\* of the same space overlaps it, and that one is still PENDING.
C25_Witness ==
    /\ last.op = "decide"
    /\ last.result = "approved"
    /\ last.pk = 1
    /\ reservations[1].status = APPROVED
    /\ reservations[2].status = PENDING
    /\ reservations[2].space = reservations[1].space
    /\ Overlap(reservations[1].start, reservations[1].end,
               reservations[2].start, reservations[2].end)

\* the request asks for the space and the exact interval of stored reservation pk
SameSpaceAndInterval(in, pk) ==
    /\ reservations[pk].space = in[2]
    /\ reservations[pk].start = DateTime(in[3], in[4])
    /\ reservations[pk].end = DateTime(in[3], in[5])

\* C26: REJECTED and CANCELED reservations never block creation. A create
\* request of a logged-in user for the space and the exact interval of a
\* REJECTED or CANCELED reservation, while no PENDING or APPROVED reservation
\* of that space overlaps the interval, gets no conflict error; it is refused
\* only if the interval already starts in the past, and otherwise it stores a
\* new PENDING reservation for that space and interval.
C26_InactiveNeverBlocks ==
    [][\A in \in CreateInputs, pk \in DOMAIN reservations :
            (/\ last'.op = "create"
             /\ WellFormed(in)
             /\ reservations[pk].status \in {REJECTED, CANCELED}
             /\ SameSpaceAndInterval(in, pk)
             /\ ~OverlapsActive(in)
             /\ CreateRequest(in[1], in[2], in[3], in[4], in[5], in[6]))
            => /\ "conflicto" \notin last'.errors
               /\ last'.errors \subseteq {"pasado"}
               /\ DateTime(in[3], in[4]) >= now =>
                    /\ last'.result = "created"
                    /\ Len(reservations') = Len(reservations) + 1
                    /\ reservations'[Len(reservations')].status = PENDING
                    /\ reservations'[Len(reservations')].space = reservations[pk].space
                    /\ reservations'[Len(reservations')].start = reservations[pk].start
                    /\ reservations'[Len(reservations')].end = reservations[pk].end]_vars

C26_Witness ==
    /\ last.op = "create"
    /\ last.result = "created"
    /\ Len(reservations) = 2
    /\ reservations[1].status \in {REJECTED, CANCELED}
    /\ reservations[2].status = PENDING
    /\ reservations[2].space = reservations[1].space
    /\ reservations[2].start = reservations[1].start
    /\ reservations[2].end = reservations[1].end

\* C27: after any sequence of whole requests, one at a time, the status of
\* each reservation agrees with its Approval record: a PENDING reservation has
\* no record, an APPROVED one has a record with decision APPR, and a REJECTED
\* one has a record with decision REJ.
C27_StatusAgreesWithApproval ==
    \A pk \in DOMAIN reservations :
        /\ reservations[pk].status = PENDING => ApprovalsOf(approvals, pk) = {}
        /\ reservations[pk].status = APPROVED
              => \E a \in ApprovalsOf(approvals, pk) : a.decision = "APPR"
        /\ reservations[pk].status = REJECTED
              => \E a \in ApprovalsOf(approvals, pk) : a.decision = "REJ"

\* C27 witness: one reservation approved, the other rejected, each with its
\* record, right after a decision.
C27_Witness ==
    /\ last.op = "decide"
    /\ Len(reservations) = 2
    /\ reservations[1].status = APPROVED
    /\ reservations[2].status = REJECTED
    /\ \E a \in ApprovalsOf(approvals, 1) : a.decision = "APPR"
    /\ \E a \in ApprovalsOf(approvals, 2) : a.decision = "REJ"

\* worker w is at the save of a decision whose reservation it loaded before a
\* cancel request stored status CANCELED
SavesOverCancel(w) ==
    /\ inflight[w].pc = "decide_ready"
    /\ inflight'[w].pc = "idle"
    /\ inflight[w].reservation.status # CANCELED
    /\ reservations[inflight[w].pk].status = CANCELED

\* C28: a stored cancel is never lost. The save of a decision request that
\* loaded the reservation before the cancel was stored leaves status CANCELED
\* and the stored cancel_reason as they are.
C28_CancelNotLost ==
    [][\A w \in Workers :
            SavesOverCancel(w)
            => /\ reservations'[inflight[w].pk].status = CANCELED
               /\ reservations'[inflight[w].pk].cancel_reason
                      = reservations[inflight[w].pk].cancel_reason]_vars

\* the decision request of worker w ends in an exception after the conflict check
DecisionFails(w) ==
    /\ inflight[w].pc \in {"decide_recorded", "decide_told"}
    /\ inflight'[w].pc = "idle"

\* C29: a decision request is all-or-nothing. When it fails after the conflict
\* check, the reservation is stored as before and so is its Approval record:
\* none for a PENDING reservation, one with decision REJ for a REJECTED one and
\* one with decision APPR for an APPROVED one.
C29_DecisionAllOrNothing ==
    [][\A w \in Workers :
            DecisionFails(w)
            => LET pk == inflight[w].pk
                   st == reservations[pk].status
               IN  /\ reservations'[pk] = reservations[pk]
                   /\ st = PENDING => ApprovalsOf(approvals', pk) = {}
                   /\ st = REJECTED
                         => \A a \in ApprovalsOf(approvals', pk) : a.decision = "REJ"
                   /\ st = APPROVED
                         => \A a \in ApprovalsOf(approvals', pk) : a.decision = "APPR"]_vars

\* C30: the stored purpose of every reservation has at most the 250 characters
\* of its declared maximum, after any sequence of create requests (with
\* resources or resource notes appended to the purpose) and cancel requests
\* (with a reason, which appends the trace).
C30_PurposeWithinMax ==
    \A pk \in DOMAIN reservations : Len(reservations[pk].purpose) <= purpose_max_length
====
